---- MODULE Spec2Model ----
(***************************************************************************)
(* The MML compiler of mml2musicxml.py as a state machine.                 *)
(*                                                                         *)
(* A Python str is a sequence of code points ("C" is <<67>>, "" is <<>>).  *)
(* None is the empty tuple <<>> and an optional value v is <<v>>.          *)
(* A lark Tree is [data |-> rule name, children |-> tuple]; a Token is its *)
(* text, and a Token that the code only ever reads through int() is the    *)
(* integer it spells.                                                      *)
(***************************************************************************)
EXTENDS Integers, Sequences, FiniteSets, TLC

VARIABLES
    scores,              \* __scores / __parts: per channel <<>> or <<measures>>
    channel,             \* __channel
    local,               \* __local
    key,                 \* __key
    length,              \* __length
    octave,              \* __octave
    tempo,               \* __tempo
    macros,              \* __macros: normalized name -> content tree
    octave_reverse,      \* __octave_reverse
    previous_notations,  \* __previous_notations: <<>> or <<[channel, index]>>
    previous_pitch,      \* __previous_pitch: <<>> or <<Pitch>>
    previous_text,       \* __previous_text: <<>> or <<str>>
    global_key,          \* __global_key: <<>> while the attribute is unset
    global_tempo,        \* __global_tempo: <<>> while the attribute is unset
    error,               \* the exception that ended compile, kind "none" if none
    visited,             \* number of top-level commands visited so far
    returned,            \* compile has returned __scores
    stack                \* the visits in progress, innermost last

vars == <<scores, channel, local, key, length, octave, tempo, macros,
          octave_reverse, previous_notations, previous_pitch, previous_text,
          global_key, global_tempo, error, visited, returned, stack>>

---------------------------------------------------------------------------
(* Bounds of the exploration *)

MaxCommands == 3
MaxCount == 2
MaxDepth == 3

---------------------------------------------------------------------------
(* Program constants *)

channels == 16
initial_key == 0
initial_length == 4
initial_octave == 4
initial_tempo == 120

None == <<>>

IsNone(x) == Len(x) = 0

Some(v) == <<v>>

NoError == [kind |-> "none", name |-> <<>>]

Raise(s, kind, name) == [s EXCEPT !.error = [kind |-> kind, name |-> name]]

Failed(s) == s.error.kind # "none"

---------------------------------------------------------------------------
(* str helpers *)

UpperChr(c) == IF c \in 97..122 THEN c - 32 ELSE c

upper(str) == [i \in 1..Len(str) |-> UpperChr(str[i])]

endswith(str, suffix) ==
    /\ Len(suffix) <= Len(str)
    /\ SubSeq(str, Len(str) - Len(suffix) + 1, Len(str)) = suffix

(* okaka.convert on the lyric fragments used here: romaji to hiragana code *)
(* points (a -> U+3042, ka -> U+304B, bare k -> U+304F by the update table) *)
convert(text) ==
    CASE text = <<97>> -> <<12354>>
      [] text = <<107, 97>> -> <<12363>>
      [] text = <<107>> -> <<12367>>
      [] OTHER -> text

---------------------------------------------------------------------------
(* class Pitch: [step, alter, octave] are the private fields *)

Min(a, b) == IF a < b THEN a ELSE b

Max(a, b) == IF a > b THEN a ELSE b

LegalSteps == {<<67>>, <<68>>, <<69>>, <<70>>, <<71>>, <<65>>, <<66>>}

StepLegal(step) == upper(step) \in LegalSteps

Pitch_set_step(p, step) == [p EXCEPT !.step = upper(step)]

(* The alter setter without the shift of a negative alteration below zero *)
Pitch_set_alter_residue(p, alter) == [p EXCEPT !.alter = alter % 12]

Pitch_set_alter(p, alter) ==
    [p EXCEPT !.alter = IF alter < 0 THEN (alter % 12) - 12 ELSE alter % 12]

Pitch_set_octave(p, o) == [p EXCEPT !.octave = Min(Max(o, -1), 9)]

StepOffsets == <<9, 11, 0, 2, 4, 5, 7>>

Pitch_value(p) ==
    LET value == StepOffsets[p.step[1] - 65 + 1] + p.alter + (p.octave + 1) * 12
    IN  Min(Max(value, 0), 127)

StepTable == <<67, 67, 68, 68, 69, 70, 70, 71, 71, 65, 65, 66>>

AlterTable == <<0, 1, 0, 1, 0, 0, 1, 0, 1, 0, 1, 0>>

(* Pitch_set_value without the octave origin at -1 *)
Pitch_set_value_origin0(p, value) ==
    Pitch_set_octave(
        Pitch_set_alter(
            Pitch_set_step(p, <<StepTable[(value % 12) + 1]>>),
            AlterTable[(value % 12) + 1]),
        value \div 12)

Pitch_set_value(p, value) ==
    Pitch_set_octave(
        Pitch_set_alter(
            Pitch_set_step(p, <<StepTable[(value % 12) + 1]>>),
            AlterTable[(value % 12) + 1]),
        (value \div 12) - 1)

BlankPitch == [step |-> <<>>, alter |-> 0, octave |-> 0]

Pitch(value) == Pitch_set_value(BlankPitch, value)

---------------------------------------------------------------------------
(* Compiler state as one record, for the recursive tree walk *)

State ==
    [scores |-> scores, channel |-> channel, local |-> local, key |-> key,
     length |-> length, octave |-> octave, tempo |-> tempo, macros |-> macros,
     octave_reverse |-> octave_reverse,
     previous_notations |-> previous_notations,
     previous_pitch |-> previous_pitch, previous_text |-> previous_text,
     global_key |-> global_key, global_tempo |-> global_tempo,
     error |-> error]

init_channel(s, c, loc) ==
    [s EXCEPT !.channel = c, !.local = loc,
              !.scores = [s.scores EXCEPT ![c] = Some(<<>>)],
              !.key = initial_key, !.length = initial_length,
              !.octave = initial_octave, !.tempo = initial_tempo]

Constructed ==
    init_channel(
        [scores |-> [c \in 0..(channels - 1) |-> None],
         channel |-> 0, local |-> FALSE, key |-> 0, length |-> 0,
         octave |-> 0, tempo |-> 0, macros |-> <<>>,
         octave_reverse |-> FALSE, previous_notations |-> None,
         previous_pitch |-> None, previous_text |-> None,
         global_key |-> None, global_tempo |-> None, error |-> NoError],
        0, FALSE)

---------------------------------------------------------------------------
(* Compiler handlers *)

(* self.__init_channel() is called without the positional argument        *)
(* `channel` that the signature requires: the call raises TypeError       *)
(* before the body of __init_channel runs.                                *)
channel_command(s, tree) ==
    Raise([s EXCEPT !.channel = tree.children[1].children[1],
                    !.local = TRUE],
          "TypeError", <<>>)

(* define_command storing the name as spelled *)
define_command_raw(s, tree) ==
    LET name == tree.children[1].children[1]
        content == tree.children[2]
    IN  IF name \in DOMAIN s.macros
        THEN Raise(s, "DuplicateMacroError", name)
        ELSE [s EXCEPT !.macros = (name :> content) @@ s.macros]

(* define_command replacing an existing entry *)
define_command_overwrite(s, tree) ==
    LET name == tree.children[1].children[1]
        normalized_name == upper(name)
        content == tree.children[2]
    IN  [s EXCEPT !.macros =
            [n \in DOMAIN s.macros \cup {normalized_name} |->
                IF n = normalized_name THEN content ELSE s.macros[n]]]

define_command(s, tree) ==
    LET name == tree.children[1].children[1]
        normalized_name == upper(name)
        content == tree.children[2]
    IN  IF normalized_name \in DOMAIN s.macros
        THEN Raise(s, "DuplicateMacroError", name)
        ELSE [s EXCEPT !.macros = (normalized_name :> content) @@ s.macros]

key_command(s, tree) ==
    LET k == tree.children[1].children[1]
    IN  [s EXCEPT !.key = k,
                  !.global_key = IF ~s.local THEN Some(k) ELSE @]

length_command(s, tree) == [s EXCEPT !.length = tree.children[1].children[1]]

octave_command(s, tree) == [s EXCEPT !.octave = tree.children[1].children[1]]

octave_up_command(s, tree) ==
    [s EXCEPT !.octave = IF s.octave_reverse THEN @ - 1 ELSE @ + 1]

octave_down_command(s, tree) ==
    [s EXCEPT !.octave = IF s.octave_reverse THEN @ + 1 ELSE @ - 1]

octave_reverse_command(s, tree) == [s EXCEPT !.octave_reverse = TRUE]

tempo_command(s, tree) ==
    LET t == tree.children[1].children[1]
    IN  [s EXCEPT !.tempo = t,
                  !.global_tempo = IF ~s.local THEN Some(t) ELSE @]

unsupported_command(s, tree) == s

(* The locals of note_command after the loop over tree.children *)
NoteLocals0 ==
    [rest |-> FALSE, text |-> <<>>, step |-> <<>>, alter |-> 0,
     pitch |-> Pitch(0), length |-> None, dot |-> 0, breath |-> FALSE]

NoteSubtree(f, subtree) ==
    CASE subtree.data = "rest" -> [f EXCEPT !.rest = TRUE]
      [] subtree.data = "text" -> [f EXCEPT !.text = subtree.children[1]]
      [] subtree.data = "step" -> [f EXCEPT !.step = subtree.children[1]]
      [] subtree.data = "accidental" ->
            [f EXCEPT !.alter = IF subtree.children[1] = <<45>> THEN -1 ELSE 1]
      [] subtree.data = "pitch" ->
            [f EXCEPT !.pitch = Pitch_set_value(@, subtree.children[1])]
      [] subtree.data = "length" ->
            [f EXCEPT !.length = Some(subtree.children[1])]
      [] subtree.data = "dot" -> [f EXCEPT !.dot = @ + 1]
      [] subtree.data = "breath" -> [f EXCEPT !.breath = TRUE]
      [] OTHER -> f

RECURSIVE NoteLocals(_, _, _)
NoteLocals(f, children, i) ==
    IF i > Len(children) THEN f
    ELSE NoteLocals(NoteSubtree(f, children[i]), children, i + 1)

(* bool(element) of an lxml element is len(element) > 0; a notations      *)
(* element holds its articulations child and its tie children.            *)
NotationsTruthy(s) ==
    /\ ~IsNone(s.previous_notations)
    /\ LET ref == s.previous_notations[1]
           notations == s.scores[ref.channel][1][ref.index].notations[1]
       IN  1 + Len(notations.tie) > 0

(* The previous-text test passing for the empty text of a note without lyric *)
TextTruthy_any(s) == ~IsNone(s.previous_text)

TextTruthy(s) == ~IsNone(s.previous_text) /\ s.previous_text[1] # <<>>

(* TieCondition with the suffix test turned round *)
TieCondition_reversed(s, text) ==
    /\ NotationsTruthy(s)
    /\ ~IsNone(s.previous_pitch)
    /\ TextTruthy(s)
    /\ endswith(text, s.previous_text[1])

TieCondition(s, text) ==
    /\ NotationsTruthy(s)
    /\ ~IsNone(s.previous_pitch)
    /\ TextTruthy(s)
    /\ endswith(s.previous_text[1], text)

ResolvePitch(s, f) ==
    LET p1 == IF f.step # <<>>
              THEN Pitch_set_octave(
                       Pitch_set_alter(Pitch_set_step(f.pitch, f.step), f.alter),
                       s.octave)
              ELSE f.pitch
    IN  Pitch_set_value(p1, Pitch_value(p1) + s.key)

(* Measure with each dot adding two beats instead of doubling *)
Measure_linear_dots(s, f, len, pitch) ==
    [divisions |-> 1, fifths |-> 0,
     beats |-> 2 * f.dot + 1, beat_type |-> len * 2^(f.dot),
     sign |-> "G", line |-> 2, tempo |-> s.tempo,
     duration |-> 2 * f.dot + 1,
     rest |-> f.rest,
     pitch |-> IF f.rest THEN None ELSE Some(pitch),
     notations |-> IF f.rest THEN None
                   ELSE Some([articulations |->
                                  IF f.breath THEN <<"breath-mark">> ELSE <<>>,
                              tie |-> <<>>]),
     lyric |-> IF ~f.rest /\ f.text # <<>> THEN Some(convert(f.text)) ELSE None]

Measure(s, f, len, pitch) ==
    [divisions |-> 1, fifths |-> 0,
     beats |-> 2 * 2^(f.dot) - 1, beat_type |-> len * 2^(f.dot),
     sign |-> "G", line |-> 2, tempo |-> s.tempo,
     duration |-> 2 * 2^(f.dot) - 1,
     rest |-> f.rest,
     pitch |-> IF f.rest THEN None ELSE Some(pitch),
     notations |-> IF f.rest THEN None
                   ELSE Some([articulations |->
                                  IF f.breath THEN <<"breath-mark">> ELSE <<>>,
                              tie |-> <<>>]),
     lyric |-> IF ~f.rest /\ f.text # <<>> THEN Some(convert(f.text)) ELSE None]

(* AddTie marking the stop of a tie and never its start *)
AddTie_stop_only(part, index, type) ==
    IF type = "stop"
    THEN [part EXCEPT ![index].notations =
             Some([@[1] EXCEPT !.tie = Append(@, type)])]
    ELSE part

AddTie(part, index, type) ==
    [part EXCEPT ![index].notations =
        Some([@[1] EXCEPT !.tie = Append(@, type)])]

note_command(s, tree) ==
    LET f0 == NoteLocals(NoteLocals0, tree.children, 1)
        len == IF IsNone(f0.length) THEN s.length ELSE f0.length[1]
        illegal == ~f0.rest /\ f0.step # <<>> /\ ~StepLegal(f0.step)
        pitch == IF f0.rest \/ illegal THEN f0.pitch ELSE ResolvePitch(s, f0)
        tie == ~f0.rest /\ TieCondition(s, f0.text)
        s1 == IF f0.rest THEN s
              ELSE [s EXCEPT !.previous_pitch = Some(pitch),
                             !.previous_text = Some(f0.text)]
        c == s.channel
    IN  IF illegal THEN Raise(s, "InternalError", <<>>)
        ELSE IF IsNone(s1.scores[c]) THEN Raise(s1, "TypeError", <<>>)
        ELSE
          LET part1 == Append(s1.scores[c][1], Measure(s, f0, len, pitch))
              index == Len(part1)
              scores1 == [s1.scores EXCEPT ![c] = Some(part1)]
              scores2 ==
                  IF tie
                  THEN LET ref == s.previous_notations[1]
                           a == [scores1 EXCEPT ![ref.channel] =
                                    Some(AddTie(@[1], ref.index, "start"))]
                       IN  [a EXCEPT ![c] = Some(AddTie(@[1], index, "stop"))]
                  ELSE scores1
          IN  IF f0.rest
              THEN [s1 EXCEPT !.scores = scores2,
                              !.previous_notations = None,
                              !.previous_pitch = Some(pitch),
                              !.previous_text = None]
              ELSE [s1 EXCEPT !.scores = scores2,
                              !.previous_notations =
                                  Some([channel |-> c, index |-> index])]

RECURSIVE visit(_, _, _)
RECURSIVE default(_, _, _, _)
RECURSIVE loop_iterations(_, _, _, _)
RECURSIVE loop_iterations_leaky(_, _, _, _)
RECURSIVE loop_iterations_scoped(_, _, _, _)

(* call_command looking the name up as spelled *)
call_command_raw(s, tree, depth) ==
    LET name == tree.children[1].children[1]
    IN  IF name \notin DOMAIN s.macros
        THEN Raise(s, "UndefinedMacroError", name)
        ELSE IF depth >= MaxDepth THEN Raise(s, "RecursionError", <<>>)
        ELSE
          LET r == visit(s, s.macros[name], depth + 1)
          IN  IF Failed(r) THEN r
              ELSE [r EXCEPT !.length = s.length, !.octave = s.octave]

(* call_command restoring the octave only *)
call_command_keeps_length(s, tree, depth) ==
    LET name == tree.children[1].children[1]
        normalized_name == upper(name)
    IN  IF normalized_name \notin DOMAIN s.macros
        THEN Raise(s, "UndefinedMacroError", name)
        ELSE IF depth >= MaxDepth THEN Raise(s, "RecursionError", <<>>)
        ELSE
          LET r == visit(s, s.macros[normalized_name], depth + 1)
          IN  IF Failed(r) THEN r
              ELSE [r EXCEPT !.octave = s.octave]

(* A macro whose body calls itself recurses until CPython's recursion     *)
(* limit raises RecursionError; MaxDepth stands for that limit, counted   *)
(* in nested macro expansions.                                            *)
call_command(s, tree, depth) ==
    LET name == tree.children[1].children[1]
        normalized_name == upper(name)
    IN  IF normalized_name \notin DOMAIN s.macros
        THEN Raise(s, "UndefinedMacroError", name)
        ELSE IF depth >= MaxDepth THEN Raise(s, "RecursionError", <<>>)
        ELSE
          LET content == s.macros[normalized_name]
              previous_length == s.length
              previous_octave == s.octave
              r == visit(s, content, depth + 1)
          IN  IF Failed(r) THEN r
              ELSE [r EXCEPT !.length = previous_length,
                             !.octave = previous_octave]

(* loop_iterations restoring the octave before the last iteration only *)
loop_iterations_leaky(s, content, n, depth) ==
    IF n = 0 THEN s
    ELSE LET r == visit(s, content, depth)
         IN  IF Failed(r) THEN r
             ELSE loop_iterations_leaky(
                      IF n = 2 THEN [r EXCEPT !.octave = s.octave] ELSE r,
                      content, n - 1, depth)

(* loop_iterations putting the length back after each iteration as well *)
loop_iterations_scoped(s, content, n, depth) ==
    IF n = 0 THEN s
    ELSE LET r == visit(s, content, depth)
         IN  IF Failed(r) THEN r
             ELSE loop_iterations_scoped(
                      [r EXCEPT !.octave = s.octave, !.length = s.length],
                      content, n - 1, depth)

loop_iterations(s, content, n, depth) ==
    IF n = 0 THEN s
    ELSE LET previous_octave == s.octave
             r == visit(s, content, depth)
         IN  IF Failed(r) THEN r
             ELSE loop_iterations([r EXCEPT !.octave = previous_octave],
                                  content, n - 1, depth)

(* loop_command running the body once more than the count *)
loop_command_once_more(s, tree, depth) ==
    loop_iterations(s, tree.children[1], tree.children[2].children[1] + 1,
                    depth)

loop_command(s, tree, depth) ==
    loop_iterations(s, tree.children[1], tree.children[2].children[1], depth)

default(s, children, i, depth) ==
    IF i > Len(children) \/ Failed(s) THEN s
    ELSE default(visit(s, children[i], depth), children, i + 1, depth)

visit(s, tree, depth) ==
    CASE tree.data = "call_command" -> call_command(s, tree, depth)
      [] tree.data = "channel_command" -> channel_command(s, tree)
      [] tree.data = "define_command" -> define_command(s, tree)
      [] tree.data = "key_command" -> key_command(s, tree)
      [] tree.data = "length_command" -> length_command(s, tree)
      [] tree.data = "loop_command" -> loop_command(s, tree, depth)
      [] tree.data = "note_command" -> note_command(s, tree)
      [] tree.data = "octave_command" -> octave_command(s, tree)
      [] tree.data = "octave_up_command" -> octave_up_command(s, tree)
      [] tree.data = "octave_down_command" -> octave_down_command(s, tree)
      [] tree.data = "octave_reverse_command" -> octave_reverse_command(s, tree)
      [] tree.data = "tempo_command" -> tempo_command(s, tree)
      [] tree.data = "unsupported_command" -> unsupported_command(s, tree)
      [] OTHER -> default(s, tree.children, 1, depth)

---------------------------------------------------------------------------
(* Parsed input: the trees lark builds for the grammar's rules *)

Tree(data, children) == [data |-> data, children |-> children]

Leaf(data, token) == Tree(data, <<token>>)

Content(commands) == Tree("content", commands)

NoteStep(step) == Tree("note_command", <<Leaf("step", step)>>)

NoteText(text, step) ==
    Tree("note_command", <<Leaf("text", text), Leaf("step", step)>>)

NoteRest == Tree("note_command", <<Leaf("rest", <<82>>)>>)

NotePitch(n) == Tree("note_command", <<Leaf("pitch", n)>>)

KeyCmd(k) == Tree("key_command", <<Leaf("key", k)>>)

LengthCmd(l) == Tree("length_command", <<Leaf("length", l)>>)

OctaveCmd(o) == Tree("octave_command", <<Leaf("octave", o)>>)

TempoCmd(t) == Tree("tempo_command", <<Leaf("tempo", t)>>)

OctaveUp == Tree("octave_up_command", <<>>)

OctaveDown == Tree("octave_down_command", <<>>)

OctaveReverse == Tree("octave_reverse_command", <<>>)

Unsupported == Tree("unsupported_command", <<<<86>>, Leaf("number", 8)>>)

ChannelCmd(c) == Tree("channel_command", <<Leaf("channel", c)>>)

CallCmd(name) == Tree("call_command", <<Leaf("name", name)>>)

DefineCmd(name, content) ==
    Tree("define_command", <<Leaf("name", name), content>>)

LoopCmd(content, count) ==
    Tree("loop_command", <<content, Leaf("count", count)>>)

(* Spellings: Foo, foo, FOO, B, b; lyric fragments a, ka; steps C, D, c *)
Name_Foo == <<70, 111, 111>>

Name_foo == <<102, 111, 111>>

Name_FOO == <<70, 79, 79>>

Name_B == <<66>>

Name_b == <<98>>

Text_a == <<97>>

Text_ka == <<107, 97>>

(* C L16 O6 K3 T90: a note at the call-site state, then every field set *)
BodyMutate ==
    Content(<<NoteStep(<<67>>), LengthCmd(16), OctaveCmd(6), KeyCmd(3),
              TempoCmd(90)>>)

(* O5 C O6 *)
BodyOctave == Content(<<OctaveCmd(5), NoteStep(<<67>>), OctaveCmd(6)>>)

(* {B=D} *)
BodyDefine == Content(<<DefineCmd(Name_B, Content(<<NoteStep(<<68>>)>>))>>)

(* {foo} [< *a,C]2 > L8 *)
BodyNested ==
    Content(<<CallCmd(Name_foo),
              LoopCmd(Content(<<OctaveUp, NoteText(Text_a, <<67>>)>>), 2),
              OctaveDown, LengthCmd(8)>>)

(* Trees are kept in tuples and picked by index *)
Bodies == <<BodyMutate, BodyOctave, BodyDefine, BodyNested>>

NoteTrees ==
    <<NoteStep(<<67>>), NoteText(Text_a, <<67>>), NoteText(Text_ka, <<100>>),
      NoteRest>>

Keys == {3}

Lengths == {8}

Octaves == {9}

Tempos == {90}

Channels == {0, 3}

CallNames == {Name_foo, Name_FOO, Name_b}

DefineNames == {Name_Foo, Name_foo, Name_B}

Counts == 0..MaxCount

(* Inputs of the pitch specification: every key, octave and absolute      *)
(* pitch of the grammar, every step letter with every accidental          *)
AllKeys == -15..15

AllOctaves == -1..9

AllPitches == 0..127

StepLetters == {<<67>>, <<68>>, <<69>>, <<70>>, <<71>>, <<65>>, <<66>>, <<99>>}

Accidentals == {<<35>>, <<43>>, <<45>>}

NoteAccidental(step, accidental) ==
    Tree("note_command", <<Leaf("step", step), Leaf("accidental", accidental)>>)

---------------------------------------------------------------------------
(* The state machine: compile() visits the top-level commands in order *)

InitCompiler ==
    /\ scores = Constructed.scores
    /\ channel = Constructed.channel
    /\ local = Constructed.local
    /\ key = Constructed.key
    /\ length = Constructed.length
    /\ octave = Constructed.octave
    /\ tempo = Constructed.tempo
    /\ macros = Constructed.macros
    /\ octave_reverse = Constructed.octave_reverse
    /\ previous_notations = Constructed.previous_notations
    /\ previous_pitch = Constructed.previous_pitch
    /\ previous_text = Constructed.previous_text
    /\ global_key = Constructed.global_key
    /\ global_tempo = Constructed.global_tempo
    /\ error = Constructed.error
    /\ visited = 0
    /\ returned = FALSE

(* Init with the commands visited one whole command at a time *)
Init ==
    /\ InitCompiler
    /\ stack = <<>>

Running == error.kind = "none" /\ ~returned

Becomes(s) ==
    /\ scores' = s.scores
    /\ channel' = s.channel
    /\ local' = s.local
    /\ key' = s.key
    /\ length' = s.length
    /\ octave' = s.octave
    /\ tempo' = s.tempo
    /\ macros' = s.macros
    /\ octave_reverse' = s.octave_reverse
    /\ previous_notations' = s.previous_notations
    /\ previous_pitch' = s.previous_pitch
    /\ previous_text' = s.previous_text
    /\ global_key' = s.global_key
    /\ global_tempo' = s.global_tempo
    /\ error' = s.error

Visit(tree) ==
    /\ Becomes(visit(State, tree, 0))
    /\ visited' = visited + 1
    /\ UNCHANGED <<returned, stack>>

CanVisit == Running /\ visited < MaxCommands

CallCommand ==
    /\ CanVisit
    /\ \E name \in CallNames : Visit(CallCmd(name))

ChannelCommand ==
    /\ CanVisit
    /\ \E c \in Channels : Visit(ChannelCmd(c))

DefineCommand ==
    /\ CanVisit
    /\ \E name \in DefineNames, b \in DOMAIN Bodies :
          Visit(DefineCmd(name, Bodies[b]))

KeyCommand ==
    /\ CanVisit
    /\ \E k \in Keys : Visit(KeyCmd(k))

LengthCommand ==
    /\ CanVisit
    /\ \E l \in Lengths : Visit(LengthCmd(l))

LoopCommand ==
    /\ CanVisit
    /\ \E b \in DOMAIN Bodies, count \in Counts :
          Visit(LoopCmd(Bodies[b], count))

NoteCommand ==
    /\ CanVisit
    /\ \E i \in DOMAIN NoteTrees : Visit(NoteTrees[i])

OctaveCommand ==
    /\ CanVisit
    /\ \E o \in Octaves : Visit(OctaveCmd(o))

OctaveUpCommand ==
    /\ CanVisit
    /\ Visit(OctaveUp)

OctaveDownCommand ==
    /\ CanVisit
    /\ Visit(OctaveDown)

OctaveReverseCommand ==
    /\ CanVisit
    /\ Visit(OctaveReverse)

TempoCommand ==
    /\ CanVisit
    /\ \E t \in Tempos : Visit(TempoCmd(t))

UnsupportedCommand ==
    /\ CanVisit
    /\ Visit(Unsupported)

Return ==
    /\ Running
    /\ returned' = TRUE
    /\ UNCHANGED <<scores, channel, local, key, length, octave, tempo, macros,
                   octave_reverse, previous_notations, previous_pitch,
                   previous_text, global_key, global_tempo, error, visited,
                   stack>>

Next ==
    \/ CallCommand
    \/ ChannelCommand
    \/ DefineCommand
    \/ KeyCommand
    \/ LengthCommand
    \/ LoopCommand
    \/ NoteCommand
    \/ OctaveCommand
    \/ OctaveUpCommand
    \/ OctaveDownCommand
    \/ OctaveReverseCommand
    \/ TempoCommand
    \/ UnsupportedCommand
    \/ Return

Spec == Init /\ [][Next]_vars

(* The pitch specification: key and octave commands over their whole      *)
(* ranges, then one note command over every pitch the grammar can spell   *)
PitchKeyCommand ==
    /\ CanVisit
    /\ \E k \in AllKeys : Visit(KeyCmd(k))

PitchOctaveCommand ==
    /\ CanVisit
    /\ \E o \in AllOctaves : Visit(OctaveCmd(o))

PitchNoteCommand ==
    /\ CanVisit
    /\ Len(scores[channel][1]) = 0
    /\ \/ \E n \in AllPitches : Visit(NotePitch(n))
       \/ \E st \in StepLetters : Visit(NoteStep(st))
       \/ \E st \in StepLetters, a \in Accidentals :
              Visit(NoteAccidental(st, a))

NextPitch ==
    \/ PitchKeyCommand
    \/ PitchOctaveCommand
    \/ PitchNoteCommand
    \/ Return

SpecPitch == Init /\ [][NextPitch]_vars

---------------------------------------------------------------------------
(* Properties *)

NoteOf(tree) == NoteLocals(NoteLocals0, tree.children, 1)

LastIsNote == ~IsNone(previous_notations)

TieOf(measure) == measure.notations[1].tie

(* The step appended a note that is tied to the note before it *)
TiedStep ==
    LET old == scores[channel][1]
        new == scores'[channel][1]
    IN  /\ Len(new) = Len(old) + 1
        /\ TieOf(new[Len(new)]) = <<"stop">>
        /\ TieOf(new[Len(old)]) = Append(TieOf(old[Len(old)]), "start")

(* The step appended a note and marked no tie *)
UntiedStep ==
    LET old == scores[channel][1]
        new == scores'[channel][1]
    IN  /\ Len(new) = Len(old) + 1
        /\ TieOf(new[Len(new)]) = <<>>
        /\ TieOf(new[Len(old)]) = TieOf(old[Len(old)])

(* C1 as stated: after a non-rest note with non-empty lyric p, a non-rest  *)
(* note with lyric t is tied to it iff p is a suffix of t.                 *)
C1_TieIffPreviousIsSuffix ==
    [][\A i \in DOMAIN NoteTrees :
          (/\ CanVisit
           /\ LastIsNote
           /\ TextTruthy(State)
           /\ ~NoteOf(NoteTrees[i]).rest
           /\ Visit(NoteTrees[i]))
          => IF endswith(NoteOf(NoteTrees[i]).text, previous_text[1])
             THEN TiedStep
             ELSE UntiedStep]_vars

(* C1 amended: after a non-rest note with non-empty lyric p, a non-rest    *)
(* note with lyric t (possibly empty) is tied to it iff t is a suffix of   *)
(* p: "ka" then "a" tie, "a" then "ka" do not, a note with no lyric after  *)
(* a lyric-bearing note ties.                                              *)
C1_TieIffCurrentIsSuffix ==
    [][\A i \in DOMAIN NoteTrees :
          (/\ CanVisit
           /\ LastIsNote
           /\ TextTruthy(State)
           /\ ~NoteOf(NoteTrees[i]).rest
           /\ Visit(NoteTrees[i]))
          => IF endswith(previous_text[1], NoteOf(NoteTrees[i]).text)
             THEN TiedStep
             ELSE UntiedStep]_vars

(* Lyric "ka" then lyric "a": tie-start on the first, tie-stop on the second *)
C1_Witness ==
    /\ Len(scores[0]) = 1
    /\ Len(scores[0][1]) = 2
    /\ Len(scores[0][1][1].lyric) = 1
    /\ scores[0][1][1].lyric[1] = convert(Text_ka)
    /\ Len(scores[0][1][2].lyric) = 1
    /\ scores[0][1][2].lyric[1] = convert(Text_a)
    /\ TieOf(scores[0][1][1]) = <<"start">>
    /\ TieOf(scores[0][1][2]) = <<"stop">>

NaturalOffset(step) ==
    CASE step = <<67>> -> 0
      [] step = <<68>> -> 2
      [] step = <<69>> -> 4
      [] step = <<70>> -> 5
      [] step = <<71>> -> 7
      [] step = <<65>> -> 9
      [] step = <<66>> -> 11

AlterOf(accidental) == IF accidental = <<45>> THEN -1 ELSE 1

G9 == [step |-> <<71>>, alter |-> 0, octave |-> 9]

Cminus1 == [step |-> <<67>>, alter |-> 0, octave |-> -1]

ClampedPitch(v) == IF v > 127 THEN G9 ELSE Cminus1

FirstNote == CanVisit /\ Len(scores[channel][1]) = 0

EmittedPitch == scores[channel][1][Len(scores[channel][1])].pitch[1]

(* C2 as stated: a note whose numeric pitch plus key leaves [0,127] is     *)
(* emitted as G9 when above 127 and as C-1 when below 0.                   *)
C2_OutOfRangeClamped ==
    [][FirstNote =>
        /\ \A n \in AllPitches :
              (Visit(NotePitch(n)) /\ n + key \notin 0..127)
              => EmittedPitch' = ClampedPitch(n + key)
        /\ \A st \in StepLetters :
              LET v == NaturalOffset(upper(st)) + (octave + 1) * 12 + key
              IN  (Visit(NoteStep(st)) /\ v \notin 0..127)
                  => EmittedPitch' = ClampedPitch(v)
        /\ \A st \in StepLetters, a \in Accidentals :
              LET v == NaturalOffset(upper(st)) + AlterOf(a)
                           + (octave + 1) * 12 + key
              IN  (Visit(NoteAccidental(st, a)) /\ v \notin 0..127)
                  => EmittedPitch' = ClampedPitch(v)]_vars

(* C3: for every v in 0..127, a Pitch set from v reads back v, its step    *)
(* and alteration (0 or 1) are the chromatic spelling of v mod 12 and its  *)
(* octave is v div 12 - 1; an absolute-pitch note at key 0 emits it.       *)
C3_RoundTrip ==
    [][\A v \in AllPitches :
          (FirstNote /\ key = 0 /\ Visit(NotePitch(v)))
          => LET p == EmittedPitch'
             IN  /\ Pitch_value(Pitch(v)) = v
                 /\ p = Pitch(v)
                 /\ p.alter \in {0, 1}
                 /\ NaturalOffset(p.step) + p.alter = v % 12
                 /\ p.octave = (v \div 12) - 1]_vars

(* N127 at key 0 and the initial octave emitted G9, which reads back 127 *)
C3_Witness ==
    /\ visited = 1
    /\ key = 0
    /\ Len(scores[0][1]) = 1
    /\ ~scores[0][1][1].rest
    /\ scores[0][1][1].pitch[1] = G9
    /\ Pitch_value(previous_pitch[1]) = 127

(* C4 as stated: a channel-select command completes and leaves the        *)
(* channel active, local, at the default state, with an empty document.   *)
C4_ChannelSelectResets ==
    [][\A c \in Channels :
          (CanVisit /\ Visit(ChannelCmd(c)))
          => /\ error'.kind = "none"
             /\ channel' = c
             /\ local'
             /\ key' = initial_key
             /\ length' = initial_length
             /\ octave' = initial_octave
             /\ tempo' = initial_tempo
             /\ Len(scores'[c]) = 1
             /\ Len(scores'[c][1]) = 0]_vars

(* C5 as stated: once :3 has been executed after notes in channel 0,      *)
(* compilation goes on, every following note or rest appends one measure  *)
(* to channel 3's document and channel 0's document stays as it was.      *)
C5_ChannelIsolation ==
    [][(CanVisit /\ Len(scores[0][1]) > 0 /\ Visit(ChannelCmd(3)))
       => /\ error'.kind = "none"
          /\ scores'[0] = scores[0]
          /\ \A i \in DOMAIN NoteTrees :
                LET r == visit(State', NoteTrees[i], 0)
                IN  /\ r.error.kind = "none"
                    /\ Len(r.scores[3][1]) = Len(scores'[3][1]) + 1
                    /\ r.scores[0] = scores[0]]_vars

(* C6: a macro call that completes leaves length and octave as they were   *)
(* before the call, and leaves key, tempo, the tie-tracking fields and the *)
(* documents as the body, interpreted from the state at the call site,     *)
(* left them.                                                              *)
C6_CallRestoresLengthAndOctave ==
    [][\A name \in CallNames :
          (/\ CanVisit
           /\ upper(name) \in DOMAIN macros
           /\ Visit(CallCmd(name))
           /\ error'.kind = "none")
          => LET body == visit(State, macros[upper(name)], 1)
             IN  /\ length' = length
                 /\ octave' = octave
                 /\ key' = body.key
                 /\ tempo' = body.tempo
                 /\ previous_notations' = body.previous_notations
                 /\ previous_pitch' = body.previous_pitch
                 /\ previous_text' = body.previous_text
                 /\ scores' = body.scores]_vars

(* {Foo=C L16 O6 K3 T90} {B={foo} [< *a,C]2 > L8} {b} has completed: the   *)
(* body set length 16 then 8 and octave 6 then 3, and the call restored    *)
(* 4 and 4; key 3, tempo 90 and the tie-tracking text "a" are the body's.  *)
C6_Witness ==
    /\ visited = 3
    /\ error.kind = "none"
    /\ DOMAIN macros = {Name_FOO, Name_B}
    /\ Len(scores[0][1]) = 3
    /\ length = 4
    /\ octave = 4
    /\ key = 3
    /\ tempo = 90
    /\ Len(previous_text) = 1
    /\ previous_text[1] = Text_a

(* C7: a loop that completes leaves the octave as it was before the loop;  *)
(* every iteration starts at that octave, and the measures of an iteration *)
(* are those of the body interpreted from that octave.                     *)
C7_LoopKeepsOctave ==
    [][\A b \in DOMAIN Bodies, count \in Counts :
          (/\ CanVisit
           /\ Visit(LoopCmd(Bodies[b], count))
           /\ error'.kind = "none")
          => /\ octave' = octave
             /\ \A k \in 1..count :
                   LET start == loop_iterations(State, Bodies[b], k - 1, 0)
                       stop == loop_iterations(State, Bodies[b], k, 0)
                   IN  /\ start.octave = octave
                       /\ stop.octave = octave
                       /\ stop.scores
                            = visit([start EXCEPT !.octave = octave],
                                    Bodies[b], 0).scores]_vars

(* [C L16 O6 K3 T90]2 has completed: the octave is 4 again, the second     *)
(* iteration's note was emitted at octave 4 with the length 16 and key 3   *)
(* the first iteration left.                                               *)
C7_Witness ==
    /\ visited = 1
    /\ error.kind = "none"
    /\ Len(scores[0][1]) = 2
    /\ octave = 4
    /\ length = 16
    /\ scores[0][1][2].beat_type = 16
    /\ scores[0][1][2].pitch[1] = [step |-> <<68>>, alter |-> 1, octave |-> 4]

DuplicateOf(name) == [kind |-> "DuplicateMacroError", name |-> name]

(* C8: a define of a name whose upper-cased form is in the macro table     *)
(* raises DuplicateMacroError with the name as spelled and leaves the      *)
(* table as it was; no step replaces or removes a stored body; a define    *)
(* in a loop body with count >= 2, or in a macro body called again,        *)
(* raises it on its second execution.                                      *)
C8_DuplicateDefine ==
    [][/\ \A name \in DefineNames, b \in DOMAIN Bodies :
             (/\ CanVisit
              /\ upper(name) \in DOMAIN macros
              /\ Visit(DefineCmd(name, Bodies[b])))
             => /\ error' = DuplicateOf(name)
                /\ macros' = macros
       /\ \A n \in DOMAIN macros :
             n \in DOMAIN macros' /\ macros'[n] = macros[n]
       /\ \A count \in Counts :
             (/\ CanVisit
              /\ count >= 2
              /\ Name_B \notin DOMAIN macros
              /\ Visit(LoopCmd(BodyDefine, count)))
             => /\ error' = DuplicateOf(Name_B)
                /\ DOMAIN macros' = DOMAIN macros \cup {Name_B}
       /\ \A name \in CallNames :
             (/\ CanVisit
              /\ upper(name) \in DOMAIN macros
              /\ Name_B \in DOMAIN macros
              /\ macros[upper(name)].children[1].data = "define_command"
              /\ Visit(CallCmd(name)))
             => /\ error' = DuplicateOf(Name_B)
                /\ macros' = macros]_vars

(* {Foo={B=D}} {foo} {foo}: the second call executed {B=D} again *)
C8_Witness ==
    /\ visited = 3
    /\ error = DuplicateOf(Name_B)
    /\ DOMAIN macros = {Name_FOO, Name_B}
    /\ macros[Name_FOO].children[1].data = "define_command"
    /\ macros[Name_B].children[1].data = "note_command"

UndefinedOf(name) == [kind |-> "UndefinedMacroError", name |-> name]

(* C9: a call raises UndefinedMacroError with the name as spelled exactly  *)
(* when the upper-cased name is not in the macro table; the table holds    *)
(* the names whose define has been executed: an executed define adds its   *)
(* own name only (not those its body defines), a loop with count 0 adds    *)
(* none, and the commands that define nothing leave the table alone.       *)
C9_UndefinedCall ==
    [][/\ \A name \in CallNames :
             (CanVisit /\ Visit(CallCmd(name)))
             => (error' = UndefinedOf(name) <=> upper(name) \notin DOMAIN macros)
       /\ \A name \in DefineNames, b \in DOMAIN Bodies :
             (/\ CanVisit
              /\ Visit(DefineCmd(name, Bodies[b]))
              /\ error'.kind = "none")
             => DOMAIN macros' = DOMAIN macros \cup {upper(name)}
       /\ \A b \in DOMAIN Bodies :
             (CanVisit /\ Visit(LoopCmd(Bodies[b], 0)))
             => DOMAIN macros' = DOMAIN macros
       /\ (\/ ChannelCommand \/ KeyCommand \/ LengthCommand \/ NoteCommand
           \/ OctaveCommand \/ OctaveUpCommand \/ OctaveDownCommand
           \/ OctaveReverseCommand \/ TempoCommand \/ UnsupportedCommand
           \/ Return)
             => DOMAIN macros' = DOMAIN macros]_vars

(* {Foo={B=D}} {b}: B is defined only in a macro body that was not called *)
C9_Witness ==
    /\ visited = 2
    /\ error = UndefinedOf(Name_b)
    /\ DOMAIN macros = {Name_FOO}
    /\ macros[Name_FOO].children[1].data = "define_command"

(* C10: calling a macro by two spellings that differ only in letter case,  *)
(* from the same state, ends in the same kind of outcome with the same     *)
(* documents and the same channel state.                                   *)
C10_CaseInsensitiveCall ==
    [][\A n1 \in CallNames, n2 \in CallNames :
          (/\ upper(n1) = upper(n2)
           /\ CanVisit
           /\ Visit(CallCmd(n1)))
          => LET r == visit(State, CallCmd(n2), 0)
             IN  /\ r.error.kind = error'.kind
                 /\ r.scores = scores'
                 /\ r.channel = channel'
                 /\ r.local = local'
                 /\ r.key = key'
                 /\ r.length = length'
                 /\ r.octave = octave'
                 /\ r.tempo = tempo'
                 /\ r.octave_reverse = octave_reverse'
                 /\ r.previous_notations = previous_notations'
                 /\ r.previous_pitch = previous_pitch'
                 /\ r.previous_text = previous_text'
                 /\ DOMAIN r.macros = DOMAIN macros']_vars

(* {Foo=C L16 O6 K3 T90} {foo} (or {FOO}) has completed *)
C10_Witness ==
    /\ visited = 2
    /\ error.kind = "none"
    /\ DOMAIN macros = {Name_FOO}
    /\ Len(scores[0][1]) = 1
    /\ key = 3
    /\ tempo = 90
    /\ length = 4
    /\ octave = 4

---------------------------------------------------------------------------
(* The duration specification: length commands over every length of the   *)
(* grammar, then one note, rest or absolute-pitch note with or without an *)
(* explicit length and with 0..MaxDots dots                               *)

MaxDots == 2

AllLengths == {1, 2, 3, 4, 6, 8, 12, 16, 24, 32, 48, 64, 96, 192}

OptLengths == {None} \cup {Some(l) : l \in AllLengths}

NoteKinds ==
    <<<<Leaf("rest", <<82>>)>>, <<Leaf("step", <<67>>)>>, <<Leaf("pitch", 60)>>>>

LengthChildren(l) == IF IsNone(l) THEN <<>> ELSE <<Leaf("length", l[1])>>

DotChildren(d) == [i \in 1..d |-> Tree("dot", <<>>)]

DurationNote(kind, l, d) ==
    Tree("note_command", NoteKinds[kind] \o LengthChildren(l) \o DotChildren(d))

(* An absolute pitch has dots only after an explicit length *)
DurationLegal(kind, l, d) == (kind = 3 /\ IsNone(l)) => d = 0

DurationLengthCommand ==
    /\ CanVisit
    /\ \E l \in AllLengths : Visit(LengthCmd(l))

DurationNoteCommand ==
    /\ CanVisit
    /\ Len(scores[channel][1]) = 0
    /\ \E kind \in DOMAIN NoteKinds, l \in OptLengths, d \in 0..MaxDots :
          /\ DurationLegal(kind, l, d)
          /\ Visit(DurationNote(kind, l, d))

NextDuration ==
    \/ DurationLengthCommand
    \/ DurationNoteCommand
    \/ Return

SpecDuration == Init /\ [][NextDuration]_vars

(* C11: a note or rest takes its explicit length if it has one and the     *)
(* channel's default length otherwise, and with d dots its time signature  *)
(* is beats = 2*2^d - 1 over beatType = length*2^d; at length 4 that is    *)
(* (1,4), (3,8), (7,16) for d = 0, 1, 2.                                   *)
C11_Duration ==
    [][\A kind \in DOMAIN NoteKinds, l \in OptLengths, d \in 0..MaxDots :
          (/\ CanVisit
           /\ Len(scores[channel][1]) = 0
           /\ DurationLegal(kind, l, d)
           /\ Visit(DurationNote(kind, l, d)))
          => LET m == scores'[channel][1][1]
                 effective == IF IsNone(l) THEN length ELSE l[1]
             IN  /\ m.beats = 2 * 2^d - 1
                 /\ m.beat_type = effective * 2^d
                 /\ (effective = 4 /\ d = 0) => <<m.beats, m.beat_type>> = <<1, 4>>
                 /\ (effective = 4 /\ d = 1) => <<m.beats, m.beat_type>> = <<3, 8>>
                 /\ (effective = 4 /\ d = 2) => <<m.beats, m.beat_type>> = <<7, 16>>]_vars

(* L8 then a rest of explicit length 4 with two dots: (7,16), not (7,32) *)
C11_Witness ==
    /\ visited = 2
    /\ length = 8
    /\ Len(scores[0][1]) = 1
    /\ scores[0][1][1].rest
    /\ scores[0][1][1].beats = 7
    /\ scores[0][1][1].beat_type = 16

---------------------------------------------------------------------------
(* The note commands a command executes, in execution order, with the     *)
(* macro table threaded through definitions, calls and loop iterations    *)

RECURSIVE Executed(_, _, _)
RECURSIVE ExecutedEach(_, _, _, _)
RECURSIVE ExecutedTimes(_, _, _, _)

Stopped(acc) == [acc EXCEPT !.ok = FALSE]

Executed(acc, tree, depth) ==
    IF ~acc.ok THEN acc
    ELSE CASE tree.data = "note_command" ->
                [acc EXCEPT !.notes = Append(@, tree)]
           [] tree.data = "define_command" ->
                LET n == upper(tree.children[1].children[1])
                IN  IF n \in DOMAIN acc.macros THEN Stopped(acc)
                    ELSE [acc EXCEPT !.macros = (n :> tree.children[2]) @@ @]
           [] tree.data = "call_command" ->
                LET n == upper(tree.children[1].children[1])
                IN  IF n \notin DOMAIN acc.macros \/ depth >= MaxDepth
                    THEN Stopped(acc)
                    ELSE Executed(acc, acc.macros[n], depth + 1)
           [] tree.data = "loop_command" ->
                ExecutedTimes(acc, tree.children[1],
                              tree.children[2].children[1], depth)
           [] tree.data = "content" ->
                ExecutedEach(acc, tree.children, 1, depth)
           [] tree.data = "channel_command" -> Stopped(acc)
           [] OTHER -> acc

ExecutedEach(acc, children, i, depth) ==
    IF i > Len(children) THEN acc
    ELSE ExecutedEach(Executed(acc, children[i], depth), children, i + 1, depth)

ExecutedTimes(acc, content, n, depth) ==
    IF n = 0 THEN acc
    ELSE ExecutedTimes(Executed(acc, content, depth), content, n - 1, depth)

ExecutedNotes(tree) ==
    Executed([notes |-> <<>>, macros |-> macros, ok |-> TRUE], tree, 0)

(* A measure without its tie marks, the one part a later note rewrites *)
Untied(m) ==
    IF m.rest THEN m
    ELSE [m EXCEPT !.notations = Some([@[1] EXCEPT !.tie = <<>>])]

(* Document `new` keeps the measures of `old`, in order, at its front *)
Extends(old, new) ==
    IF IsNone(old) THEN TRUE
    ELSE /\ ~IsNone(new)
         /\ Len(new[1]) >= Len(old[1])
         /\ \A i \in 1..Len(old[1]) : Untied(new[1][i]) = Untied(old[1][i])

(* Measure m is the one note command `tree` writes: rest or note, lyric *)
MeasureOfNote(m, tree) ==
    LET f == NoteOf(tree)
    IN  /\ m.rest = f.rest
        /\ m.lyric = IF ~f.rest /\ ~IsNone(f.text) THEN Some(convert(f.text))
                     ELSE None

OneMeasurePerNote(tree) ==
    LET r == visit(State, tree, 0)
        e == ExecutedNotes(tree)
        old == scores[channel][1]
    IN  /\ \A c \in 0..(channels - 1) : Extends(scores[c], r.scores[c])
        /\ ~Failed(r) =>
              LET new == r.scores[r.channel][1]
              IN  /\ e.ok
                  /\ Len(new) = Len(old) + Len(e.notes)
                  /\ \A i \in 1..Len(e.notes) :
                        MeasureOfNote(new[Len(old) + i], e.notes[i])
                  /\ tree.data # "note_command" /\ Len(e.notes) = 0
                        => Len(new) = Len(old)

(* C12: whatever command comes next, the active channel's document gains   *)
(* exactly one measure per note or rest command the command executes       *)
(* (every loop iteration and macro expansion counted), in execution order; *)
(* other commands add none, and every document keeps the measures it has.  *)
C12_OneMeasurePerNote ==
    CanVisit =>
        /\ \A i \in DOMAIN NoteTrees : OneMeasurePerNote(NoteTrees[i])
        /\ \A b \in DOMAIN Bodies, count \in Counts :
              OneMeasurePerNote(LoopCmd(Bodies[b], count))
        /\ \A name \in CallNames : OneMeasurePerNote(CallCmd(name))
        /\ \A name \in DefineNames, b \in DOMAIN Bodies :
              OneMeasurePerNote(DefineCmd(name, Bodies[b]))
        /\ \A c \in Channels : OneMeasurePerNote(ChannelCmd(c))
        /\ \A k \in Keys : OneMeasurePerNote(KeyCmd(k))
        /\ \A l \in Lengths : OneMeasurePerNote(LengthCmd(l))
        /\ \A o \in Octaves : OneMeasurePerNote(OctaveCmd(o))
        /\ \A t \in Tempos : OneMeasurePerNote(TempoCmd(t))
        /\ OneMeasurePerNote(OctaveUp)
        /\ OneMeasurePerNote(OctaveDown)
        /\ OneMeasurePerNote(OctaveReverse)
        /\ OneMeasurePerNote(Unsupported)

(* {foo=C L16 O6 K3 T90} then [{foo} [< *a,C]2 > L8]2 twice over:          *)
(* C a a C a a in the document, then the same six again                    *)
C12_Witness ==
    /\ visited = 3
    /\ error.kind = "none"
    /\ Len(scores[0][1]) = 12
    /\ \A i \in {1, 4, 7, 10} : scores[0][1][i].lyric = None
    /\ \A i \in {2, 3, 5, 6, 8, 9, 11, 12} :
          scores[0][1][i].lyric = Some(convert(Text_a))

---------------------------------------------------------------------------
(* The scale specification: from the constructed state, step-letter notes *)
(* with no lyric, accidental, length or dot, and nothing else             *)

MaxScale == 5

ScaleSteps == {<<67>>, <<68>>, <<69>>, <<70>>, <<71>>, <<65>>, <<66>>}

ScaleNoteCommand ==
    /\ Running
    /\ visited < MaxScale
    /\ \E st \in ScaleSteps : Visit(NoteStep(st))

NextScale ==
    \/ ScaleNoteCommand
    \/ Return

SpecScale == Init /\ [][NextScale]_vars

PlainMeasure(m, st) ==
    /\ <<m.beats, m.beat_type>> = <<1, 4>>
    /\ ~m.rest
    /\ m.pitch = Some([step |-> st, alter |-> 0, octave |-> 4])
    /\ Pitch_value(m.pitch[1]) = 60 + NaturalOffset(st)
    /\ TieOf(m) = <<>>
    /\ m.lyric = None

(* C13: from the default state (key 0, length 4, octave 4, tempo 120), the *)
(* n-th plain step-letter note leaves one document, in channel 0, of n     *)
(* measures: the earlier ones as they were, and a new last one with        *)
(* (beats, beatType) = (1,4), the letter's natural pitch at octave 4, no   *)
(* tie and no lyric.                                                       *)
C13_PlainScale ==
    [][\A st \in ScaleSteps :
          (Running /\ visited < MaxScale /\ Visit(NoteStep(st)))
          => /\ error'.kind = "none"
             /\ channel' = 0
             /\ \A c \in 1..(channels - 1) : IsNone(scores'[c])
             /\ Len(scores'[0][1]) = visited'
             /\ SubSeq(scores'[0][1], 1, visited) = scores[0][1]
             /\ PlainMeasure(scores'[0][1][visited'], st)
             /\ <<key', length', octave', tempo'>> = <<0, 4, 4, 120>>]_vars

(* CDEFG: five measures, 60 62 64 65 67 *)
C13_Witness ==
    /\ visited = 5
    /\ Len(scores[0][1]) = 5
    /\ [i \in 1..5 |-> Pitch_value(scores[0][1][i].pitch[1])]
          = <<60, 62, 64, 65, 67>>
    /\ [i \in 1..5 |-> scores[0][1][i].pitch[1].step]
          = <<<<67>>, <<68>>, <<69>>, <<70>>, <<71>>>>
    /\ \A i \in 1..5 : scores[0][1][i].pitch[1].octave = 4

(* C14: after any sequence of octave, octave-up, octave-down,              *)
(* octave-reverse, loop and macro-call commands, the channel's octave is   *)
(* in -1..9.                                                               *)
C14_OctaveInRange == octave \in -1..9

(* C15: when a rest is emitted, the previous notations, the previous pitch *)
(* and the previous lyric text are all empty afterwards.                   *)
C15_RestClearsTieTracking ==
    [][(CanVisit /\ Visit(NoteRest))
       => /\ IsNone(previous_notations')
          /\ IsNone(previous_pitch')
          /\ IsNone(previous_text')]_vars

(* Pitch p is the chromatic-table spelling of v: C C# D D# E F F# G G# A   *)
(* A# B within the octave v div 12 - 1                                     *)
Spells(p, v) ==
    /\ p.alter \in {0, 1}
    /\ p.step \in {<<67>>, <<68>>, <<69>>, <<70>>, <<71>>, <<65>>, <<66>>}
    /\ p.alter = 1 => p.step \notin {<<69>>, <<66>>}
    /\ NaturalOffset(p.step) + p.alter = v % 12
    /\ p.octave = (v \div 12) - 1

Clamp(v) == Min(Max(v, 0), 127)

(* C16 as stated: with base(s) + a + (o+1)*12 + k in 0..127, the emitted   *)
(* step, alteration and octave spell exactly that number.                  *)
C16_SumSpelled ==
    [][FirstNote =>
        /\ \A st \in StepLetters :
              LET v == NaturalOffset(upper(st)) + (octave + 1) * 12 + key
              IN  (Visit(NoteStep(st)) /\ v \in 0..127)
                  => Spells(EmittedPitch', v)
        /\ \A st \in StepLetters, a \in Accidentals :
              LET v == NaturalOffset(upper(st)) + AlterOf(a)
                           + (octave + 1) * 12 + key
              IN  (Visit(NoteAccidental(st, a)) /\ v \in 0..127)
                  => Spells(EmittedPitch', v)]_vars

(* C16: the untransposed value base(s) + a + (o+1)*12 is clamped into      *)
(* 0..127 first and the key is added to the clamped value; when that sum   *)
(* is in 0..127 the emitted step, alteration and octave spell it, with a   *)
(* flat re-spelled as the sharp or natural of the same value.              *)
C16_ClampedThenTransposed ==
    [][FirstNote =>
        /\ \A st \in StepLetters :
              LET v == Clamp(NaturalOffset(upper(st)) + (octave + 1) * 12) + key
              IN  (Visit(NoteStep(st)) /\ v \in 0..127)
                  => Spells(EmittedPitch', v)
        /\ \A st \in StepLetters, a \in Accidentals :
              LET v == Clamp(NaturalOffset(upper(st)) + AlterOf(a)
                                 + (octave + 1) * 12) + key
              IN  (Visit(NoteAccidental(st, a)) /\ v \in 0..127)
                  => Spells(EmittedPitch', v)]_vars

(* C- as the first command, at key 0 and octave 4: emitted as B3 *)
C16_Witness ==
    /\ visited = 1
    /\ key = 0
    /\ octave = 4
    /\ Len(scores[0][1]) = 1
    /\ scores[0][1][1].pitch = Some([step |-> <<66>>, alter |-> 0, octave |-> 3])

RECURSIVE Copies(_, _, _, _)

(* n consecutive copies of the body's commands, each copy started at      *)
(* octave o                                                               *)
Copies(s, content, n, o) ==
    IF n = 0 \/ Failed(s) THEN s
    ELSE Copies(default([s EXCEPT !.octave = o], content.children, 1, 0),
                content, n - 1, o)

(* Every field of the compiler but the octave *)
ButOctave(s) == [s EXCEPT !.octave = 0]

(* C17: a loop with count n emits the measures and ends in the state of n  *)
(* consecutive copies of its body, each started at the octave the loop     *)
(* began with: length, key and tempo set in the body carry into the next   *)
(* iteration and past the loop. A loop with count 0 changes no state.      *)
C17_LoopIsCopies ==
    [][\A b \in DOMAIN Bodies, count \in Counts :
          (CanVisit /\ Visit(LoopCmd(Bodies[b], count)))
          => LET unrolled == Copies(State, Bodies[b], count, octave)
             IN  /\ scores' = unrolled.scores
                 /\ <<key', length', tempo'>>
                       = <<unrolled.key, unrolled.length, unrolled.tempo>>
                 /\ error' = unrolled.error
                 /\ ButOctave(visit(State, LoopCmd(Bodies[b], count), 0))
                       = ButOctave(unrolled)
                 /\ count = 0 => /\ unrolled = State
                                 /\ octave' = octave]_vars

(* [C L16 O6 K3 T90]2: the second measure is written with the length 16,   *)
(* the key 3 and the tempo 90 of the first iteration, and all three stay   *)
C17_Witness ==
    /\ visited = 1
    /\ error.kind = "none"
    /\ <<key, length, tempo>> = <<3, 16, 90>>
    /\ Len(scores[0][1]) = 2
    /\ <<scores[0][1][1].beat_type, scores[0][1][1].tempo>> = <<4, 120>>
    /\ <<scores[0][1][2].beat_type, scores[0][1][2].tempo>> = <<16, 90>>
    /\ Pitch_value(scores[0][1][2].pitch[1]) = Pitch_value(scores[0][1][1].pitch[1]) + 3

(* C18: a compilation that fails, fails with UndefinedMacroError,          *)
(* DuplicateMacroError or InternalError, and once it has failed no later   *)
(* command is interpreted and no documents are returned.                   *)
C18_DeclaredErrorKinds ==
    /\ error.kind \in {"none", "UndefinedMacroError", "DuplicateMacroError",
                       "InternalError"}
    /\ error.kind # "none" => ~returned

---------------------------------------------------------------------------
(* The traversal one visit at a time: compile() visits the root, a rule    *)
(* without a handler visits its children in order, a macro call visits    *)
(* the stored body and a loop visits its body once per iteration. The     *)
(* visits in progress are the frames of `stack`.                          *)

Frame(kind, content, remaining) ==
    [kind |-> kind, content |-> content, i |-> 1, remaining |-> remaining,
     previous_length |-> length, previous_octave |-> octave]

Top == stack[Len(stack)]

Current == Top.content.children[Top.i]

AtChild == Top.i <= Len(Top.content.children)

Advanced == [stack EXCEPT ![Len(stack)].i = @ + 1]

Popped == SubSeq(stack, 1, Len(stack) - 1)

(* Macro expansions in progress *)
Expansions == Cardinality({j \in DOMAIN stack : stack[j].kind = "call"})

(* The frame of a loop whose body has been visited to its end and never   *)
(* counts the iteration                                                   *)
LoopEnd_uncounted(frame) == frame

(* The frame of a loop after one more iteration of range(count) *)
LoopEnd(frame) == [frame EXCEPT !.i = 1, !.remaining = @ - 1]

Root(commands) == Tree("root", <<Content(commands)>>)

(* {foo=C L16 O6 K3 T90} {B={foo} [< *a,C]2 > L8} [{b}]n *)
ProgramNestedCalls(n) ==
    Root(<<DefineCmd(Name_foo, BodyMutate), DefineCmd(Name_B, BodyNested),
           LoopCmd(Content(<<CallCmd(Name_b)>>), n)>>)

(* {foo={foo} [< *a,C]2 > L8} [{FOO}]n : a macro that calls itself *)
ProgramSelfCall(n) ==
    Root(<<DefineCmd(Name_foo, BodyNested),
           LoopCmd(Content(<<CallCmd(Name_FOO)>>), n)>>)

(* {foo={b}} {B=C {foo}} [{foo}]n : two macros that call each other *)
ProgramMutualCalls(n) ==
    Root(<<DefineCmd(Name_foo, Content(<<CallCmd(Name_b)>>)),
           DefineCmd(Name_B, Content(<<NoteStep(<<67>>), CallCmd(Name_foo)>>)),
           LoopCmd(Content(<<CallCmd(Name_foo)>>), n)>>)

(* [{B=D}]n R *)
ProgramDefineInLoop(n) == Root(<<LoopCmd(BodyDefine, n), NoteRest>>)

(* [[O5 C O6]n {foo}]n *)
ProgramUndefined(n) ==
    Root(<<LoopCmd(Content(<<LoopCmd(BodyOctave, n), CallCmd(Name_foo)>>), n)>>)

(* [C L16 O6 K3 T90]n < *ka,d *)
ProgramPlain(n) ==
    Root(<<LoopCmd(BodyMutate, n), OctaveUp, NoteText(Text_ka, <<100>>)>>)

Programs(n) ==
    <<ProgramNestedCalls(n), ProgramSelfCall(n), ProgramMutualCalls(n),
      ProgramDefineInLoop(n), ProgramUndefined(n), ProgramPlain(n)>>

InitWalk ==
    /\ InitCompiler
    /\ \E n \in Counts : \E p \in DOMAIN Programs(n) :
          stack = <<Frame("root", Programs(n)[p], 0)>>

UnchangedCompiler ==
    UNCHANGED <<scores, channel, local, key, length, octave, tempo, macros,
                octave_reverse, previous_notations, previous_pitch,
                previous_text, global_key, global_tempo, error>>

(* A command with a handler that visits nothing further *)
WalkCommand ==
    /\ Running
    /\ AtChild
    /\ Current.data \notin {"root", "content", "call_command", "loop_command"}
    /\ Becomes(visit(State, Current, Expansions))
    /\ stack' = Advanced
    /\ UNCHANGED <<visited, returned>>

(* __default__: a rule without a handler, its children visited in order *)
WalkDefault ==
    /\ Running
    /\ AtChild
    /\ Current.data \in {"root", "content"}
    /\ stack' = Append(Advanced, Frame("default", Current, 0))
    /\ UnchangedCompiler
    /\ UNCHANGED <<visited, returned>>

WalkCall ==
    /\ Running
    /\ AtChild
    /\ Current.data = "call_command"
    /\ LET name == Current.children[1].children[1]
           normalized_name == upper(name)
       IN  IF normalized_name \notin DOMAIN macros
           THEN /\ Becomes(Raise(State, "UndefinedMacroError", name))
                /\ UNCHANGED stack
           ELSE IF Expansions >= MaxDepth
           THEN /\ Becomes(Raise(State, "RecursionError", <<>>))
                /\ UNCHANGED stack
           ELSE /\ stack' = Append(Advanced,
                                   Frame("call", macros[normalized_name], 0))
                /\ UnchangedCompiler
    /\ UNCHANGED <<visited, returned>>

WalkLoop ==
    /\ Running
    /\ AtChild
    /\ Current.data = "loop_command"
    /\ LET content == Current.children[1]
           count == Current.children[2].children[1]
       IN  stack' = IF count = 0 THEN Advanced
                    ELSE Append(Advanced, Frame("loop", content, count))
    /\ UnchangedCompiler
    /\ UNCHANGED <<visited, returned>>

(* The end of a loop body: the octave is put back, and the body is        *)
(* visited again while iterations remain                                  *)
WalkLoopEnd ==
    /\ Running
    /\ ~AtChild
    /\ Top.kind = "loop"
    /\ octave' = Top.previous_octave
    /\ stack' = IF LoopEnd(Top).remaining = 0 THEN Popped
                ELSE [stack EXCEPT ![Len(stack)] = LoopEnd(Top)]
    /\ UNCHANGED <<scores, channel, local, key, length, tempo, macros,
                   octave_reverse, previous_notations, previous_pitch,
                   previous_text, global_key, global_tempo, error, visited,
                   returned>>

(* The end of a macro body: length and octave are put back *)
WalkCallEnd ==
    /\ Running
    /\ ~AtChild
    /\ Top.kind = "call"
    /\ length' = Top.previous_length
    /\ octave' = Top.previous_octave
    /\ stack' = Popped
    /\ UNCHANGED <<scores, channel, local, key, tempo, macros,
                   octave_reverse, previous_notations, previous_pitch,
                   previous_text, global_key, global_tempo, error, visited,
                   returned>>

WalkDefaultEnd ==
    /\ Running
    /\ ~AtChild
    /\ Top.kind = "default"
    /\ stack' = Popped
    /\ UnchangedCompiler
    /\ UNCHANGED <<visited, returned>>

(* self.visit(tree) has come back to compile(), which returns __scores *)
WalkReturn ==
    /\ Running
    /\ ~AtChild
    /\ Top.kind = "root"
    /\ returned' = TRUE
    /\ UnchangedCompiler
    /\ UNCHANGED <<visited, stack>>

NextWalk ==
    \/ WalkCommand
    \/ WalkDefault
    \/ WalkCall
    \/ WalkLoop
    \/ WalkLoopEnd
    \/ WalkCallEnd
    \/ WalkDefaultEnd
    \/ WalkReturn

(* The interpreter is one sequential thread: while a visit is in progress *)
(* its next step is taken                                                 *)
SpecWalk == InitWalk /\ [][NextWalk]_vars /\ WF_vars(NextWalk)

Compiled == visit(Constructed, stack[1].content, 0)

(* The traversal ends where the visit of the whole tree ends *)
WalkAgrees ==
    /\ returned => State = Compiled
    /\ error.kind # "none" => error = Compiled.error /\ scores = Compiled.scores

(* C19: for every parsed command tree compile terminates: it returns the   *)
(* documents or fails with an error, also when macro bodies call macros.   *)
C19_Terminates == <>(returned \/ error.kind # "none")

(* {foo=C L16 O6 K3 T90} {B={foo} [< *a,C]2 > L8} [{b}]2 has returned:     *)
(* twice the note of foo and the two notes of the inner loop               *)
C19_Witness ==
    /\ returned
    /\ DOMAIN macros = {upper(Name_foo), Name_B}
    /\ Expansions = 0
    /\ Len(scores[0][1]) = 6
    /\ State = Compiled

Marked(m, type) == ~m.rest /\ \E j \in DOMAIN TieOf(m) : TieOf(m)[j] = type

(* Measure i of a document has no tie marks a well-paired tie cannot give *)
TiePaired(part, i) ==
    LET m == part[i]
    IN  /\ m.rest => IsNone(m.notations)
        /\ ~m.rest =>
              TieOf(m) \in {<<>>, <<"stop">>, <<"start">>, <<"stop", "start">>}
        /\ Marked(m, "stop") <=> (i > 1 /\ Marked(part[i - 1], "start"))
        /\ Marked(m, "start") <=> (i < Len(part) /\ Marked(part[i + 1], "stop"))

(* C20: in every document at every point of compilation a measure carries  *)
(* a tie-stop exactly when the measure just before it is a non-rest note   *)
(* carrying a tie-start, and a tie-start exactly when the measure just     *)
(* after it carries a tie-stop; a rest carries no tie, so no tie links two *)
(* notes across a rest; and a step that adds a stop adds its start.        *)
C20_TiesPaired ==
    [][/\ \A c \in 0..(channels - 1) :
             ~IsNone(scores'[c]) =>
                 \A i \in DOMAIN scores'[c][1] : TiePaired(scores'[c][1], i)
       /\ (error'.kind = "none" /\ ~IsNone(scores[channel])
              /\ Len(scores'[channel'][1]) > 0
              /\ Marked(scores'[channel'][1][Len(scores'[channel'][1])], "stop")
              /\ Len(scores'[channel'][1]) = Len(scores[channel][1]) + 1)
          => LET old == scores[channel][1]
                 new == scores'[channel'][1]
             IN  /\ ~Marked(old[Len(old)], "start")
                 /\ Marked(new[Len(old)], "start")]_vars

(* *a,C three times: the middle note ends one tie and starts the next *)
C20_Witness ==
    /\ visited = 3
    /\ Len(scores[0][1]) = 3
    /\ \A i \in 1..3 : ~scores[0][1][i].rest
    /\ TieOf(scores[0][1][1]) = <<"start">>
    /\ TieOf(scores[0][1][2]) = <<"stop", "start">>
    /\ TieOf(scores[0][1][3]) = <<"stop">>

====
